---- MODULE Spec2Model ----
(***************************************************************************)
(* cdeleo/ctm: a filesystem-backed store of Events, Players and Scans,     *)
(* accessed by independent server processes that coordinate only through   *)
(* flock(1) advisory locks (src/ctm_server.py).                            *)
(*                                                                         *)
(* Each public operation of CtmServer is a sequence of steps: one step per *)
(* lock acquisition and one per filesystem access.  Leaving the `with`     *)
(* blocks (by return or by raise) is part of the step that returns or      *)
(* raises.                                                                 *)
(***************************************************************************)
EXTENDS Integers, Sequences, FiniteSets, TLC

\* ---------------------------------------------------------------- constants
EVENT_PREFIX == "e"
LOCK_PREFIX == "l"
MASTER_PREFIX == "m"
PLAYER_PREFIX == "p"
SCAN_PREFIX == "s"
SCAN_DATA_PREFIX == "d"

\* Python's None (player_id / scan_id / event_name not given).
None == "none"

\* ------------------------------------------------------------------- bounds
\* Server processes / worker threads running operations concurrently.
Procs == {1, 2}
\* The process of the sequential specification.
SeqProc == CHOOSE p \in Procs : \A q \in Procs : p <= q

\* Event names callers use; no CreateEvent call uses NoEvent.
EventNames == {"ev", "e2"}
NoEvent == "e2"
PlayerIds == {"0", "1"}
\* The tokens _GetScanId can draw (the code draws 64 random bits).
ScanIds == {"s0", "s1"}
PlayerNames == {"a", "b"}
Payloads == {"x", "y"}
\* Longest list of players handed to SetPlayers.
MaxPlayers == 2

\* ------------------------------------------------------------------- state
VARIABLES
  events,   \* names of the event directories under the working directory
  players,  \* players[e][id]: the Player record stored in file p<id> of event e
  scans,    \* scans[e][id]: the Scan record stored in file s<id> of event e
  sdata,    \* sdata[e][id]: the payload stored in file d<id> of event e
  locks,    \* flock locks held: records [proc, path, shared]
  pc,       \* pc[p]: where process p is in its operation
  arg,      \* arg[p]: the operation p runs and its arguments
  loc,      \* loc[p]: the local variables of the operation
  ret,      \* ret[p]: [status, value] of the operation that has finished
  nw,       \* nw[p]: files written, created or removed so far by p's operation
  snap      \* sequential execution: the files as they were when the operation
            \* was called

vars == <<events, players, scans, sdata, locks, pc, arg, loc, ret, nw, snap>>
files == <<events, players, scans, sdata>>

\* ------------------------------------------------------------------ records
Player(id, name, scan_id) == [id |-> id, name |-> name, scan_id |-> scan_id]
Scan(id, player_id, data) == [id |-> id, player_id |-> player_id, data |-> data]

NoFiles == [x \in {} |-> None]

NoArg == [op |-> "-", e |-> None, s |-> None, p |-> None, ps |-> <<>>,
          d |-> None, u |-> FALSE]
NoLoc == [todo |-> <<>>, out |-> <<>>, id |-> None, old |-> None]
NoRet == [status |-> "-", value |-> <<>>]

\* ---------------------------------------------------------------- paths
_IsValidPath(prefix, name, event_name) ==
  IF event_name # None THEN TRUE
  ELSE IF prefix = EVENT_PREFIX THEN TRUE
  ELSE IF prefix = MASTER_PREFIX /\ name = EVENT_PREFIX THEN TRUE
  ELSE FALSE

\* A path is its components: the event directory (None: the working
\* directory itself), and the file name as (lock prefix, kind prefix, name).
\* An invalid call raises: it names no path.
_GetPath(prefix, name, event_name, lock) ==
  IF ~_IsValidPath(prefix, name, event_name)
    THEN [dir |-> "Invalid call", lk |-> "", prefix |-> prefix, name |-> name]
    ELSE [dir |-> event_name,
          lk |-> IF lock THEN LOCK_PREFIX ELSE "",
          prefix |-> prefix,
          name |-> name]

\* ---------------------------------------------------------------- locks
\* flock(1) on a fresh open file description of the lock file: a shared
\* request is granted unless some description holds the file exclusively, an
\* exclusive one only when no description holds it at all.
LockFree(path, shared) ==
  \A l \in locks : l.path = path => (shared /\ l.shared)

_Lock(shared, prefix, name, event_name) ==
  [path |-> _GetPath(prefix, name, event_name, TRUE), shared |-> shared]

_ExclusiveLock(prefix, name, event_name) == _Lock(FALSE, prefix, name, event_name)

_SharedLock(prefix, name, event_name) == _Lock(TRUE, prefix, name, event_name)

HeldBy(p) == {l \in locks : l.proc = p}

\* Mutant of Unlocked: only the shared locks are given back.
UnlockedShared(p) == locks \ {l \in HeldBy(p) : l.shared}

\* The `finally` of every Lock scope the operation is inside of.
Unlocked(p) == locks \ HeldBy(p)

\* The lock process p requests at its current step (when it is at one).
LockPcs == {"le_lock", "ce_mlock", "ce_lock", "de_mlock", "de_lock",
            "ee_lock", "lp_mlock", "lp_ilock", "sp_mlock", "sp_dlock",
            "sp_wlock", "ls_mlock", "ls_ilock", "gs_mlock", "gs_ilock",
            "ps_mlock", "ps_ilock", "ms_mlock", "ms_slock", "ms_plock",
            "ms_olock"}

Wanted(p) ==
  LET a == arg[p]
      l == loc[p]
  IN CASE pc[p] \in {"le_lock"} -> _SharedLock(MASTER_PREFIX, EVENT_PREFIX, None)
       [] pc[p] \in {"ce_mlock", "de_mlock"} ->
            _ExclusiveLock(MASTER_PREFIX, EVENT_PREFIX, None)
       [] pc[p] \in {"ce_lock", "de_lock"} -> _ExclusiveLock(EVENT_PREFIX, a.e, None)
       [] pc[p] = "ee_lock" -> _SharedLock(EVENT_PREFIX, a.e, None)
       [] pc[p] = "lp_mlock" -> _SharedLock(MASTER_PREFIX, PLAYER_PREFIX, a.e)
       [] pc[p] = "lp_ilock" -> _SharedLock(PLAYER_PREFIX, Head(l.todo), a.e)
       [] pc[p] = "sp_mlock" -> _ExclusiveLock(MASTER_PREFIX, PLAYER_PREFIX, a.e)
       [] pc[p] = "sp_dlock" -> _ExclusiveLock(PLAYER_PREFIX, Head(l.todo), a.e)
       [] pc[p] = "sp_wlock" -> _ExclusiveLock(PLAYER_PREFIX, Head(l.todo).id, a.e)
       [] pc[p] \in {"ls_mlock", "gs_mlock", "ms_mlock"} ->
            _SharedLock(MASTER_PREFIX, SCAN_PREFIX, a.e)
       [] pc[p] = "ls_ilock" -> _SharedLock(SCAN_PREFIX, Head(l.todo), a.e)
       [] pc[p] = "gs_ilock" -> _SharedLock(SCAN_PREFIX, a.s, a.e)
       [] pc[p] = "ps_mlock" -> _ExclusiveLock(MASTER_PREFIX, SCAN_PREFIX, a.e)
       [] pc[p] = "ps_ilock" -> _ExclusiveLock(SCAN_PREFIX, l.id, a.e)
       [] pc[p] = "ms_slock" -> _ExclusiveLock(SCAN_PREFIX, a.s, a.e)
       [] pc[p] = "ms_plock" -> _ExclusiveLock(PLAYER_PREFIX, a.p, a.e)
       [] pc[p] = "ms_olock" -> _ExclusiveLock(PLAYER_PREFIX, l.old, a.e)

\* Entering a Lock scope: flock returned 0.
Locked(p) ==
  /\ LockFree(Wanted(p).path, Wanted(p).shared)
  /\ locks' = locks \cup {[proc |-> p, path |-> Wanted(p).path,
                           shared |-> Wanted(p).shared]}

\* ------------------------------------------------------------ step helpers
Goto(p, label) == pc' = [pc EXCEPT ![p] = label]

\* The operation returns or raises: every Lock scope it is in is left.
Exit(p, status, value) ==
  /\ pc' = [pc EXCEPT ![p] = "done"]
  /\ ret' = [ret EXCEPT ![p] = [status |-> status, value |-> value]]
  /\ loc' = [loc EXCEPT ![p] = NoLoc]
  /\ locks' = Unlocked(p)

\* All orders in which os.listdir may return the ids in S.
RECURSIVE Orders(_)
Orders(S) ==
  IF S = {} THEN {<<>>}
  ELSE UNION {{<<x>> \o t : t \in Orders(S \ {x})} : x \in S}

\* _List(prefix, event_name): the names of the files of one kind.
_List(prefix, event_name) ==
  IF prefix = EVENT_PREFIX THEN events
  ELSE IF prefix = PLAYER_PREFIX THEN DOMAIN players[event_name]
  ELSE IF prefix = SCAN_PREFIX THEN DOMAIN scans[event_name]
  ELSE DOMAIN sdata[event_name]

\* Mutant of IsDir: the directory is taken to be there.
IsDirAlways(event_name) == TRUE

\* os.path.isdir(_GetPath(EVENT_PREFIX, event_name))
IsDir(event_name) == event_name \in _List(EVENT_PREFIX, None)

\* Mutant of Exists: the file is taken to be there.
ExistsAlways(prefix, name, event_name) == TRUE

\* os.path.exists(_GetPath(prefix, name, event_name=event_name))
Exists(prefix, name, event_name) == name \in _List(prefix, event_name)

\* ---------------------------------------------------------------- Init
Init ==
  /\ events = {}
  /\ players = [e \in EventNames |-> NoFiles]
  /\ scans = [e \in EventNames |-> NoFiles]
  /\ sdata = [e \in EventNames |-> NoFiles]
  /\ locks = {}
  /\ pc = [p \in Procs |-> "idle"]
  /\ arg = [p \in Procs |-> NoArg]
  /\ loc = [p \in Procs |-> NoLoc]
  /\ ret = [p \in Procs |-> NoRet]
  /\ nw = [p \in Procs |-> 0]
  /\ snap = files

\* ------------------------------------------------------------ call / return
\* The lists of players a caller may hand to SetPlayers.
RECURSIVE ListsUpTo(_, _)
ListsUpTo(S, n) ==
  IF n = 0 THEN {<<>>}
  ELSE ListsUpTo(S, n - 1) \cup
       {Append(t, x) : t \in {u \in ListsUpTo(S, n - 1) : Len(u) = n - 1}, x \in S}

Ops == {"ListEvents", "CreateEvent", "DeleteEvent", "ListPlayers", "SetPlayers",
        "ListScans", "GetScan", "PostScan", "MarkScan"}

\* The calls with events E, players P named from N, at most n players to a
\* list, and payloads D.
CallsOf(E, P, N, n, D) ==
  {[NoArg EXCEPT !.op = "ListEvents"]}
  \cup {[NoArg EXCEPT !.op = "CreateEvent", !.e = e] : e \in E \ {NoEvent}}
  \cup {[NoArg EXCEPT !.op = o, !.e = e] :
          o \in {"DeleteEvent", "ListPlayers"}, e \in E}
  \cup {[NoArg EXCEPT !.op = "SetPlayers", !.e = e, !.ps = ps] :
          e \in E, ps \in ListsUpTo({Player(i, m, None) : i \in P, m \in N}, n)}
  \cup {[NoArg EXCEPT !.op = "ListScans", !.e = e, !.u = u] :
          e \in E, u \in BOOLEAN}
  \cup {[NoArg EXCEPT !.op = "GetScan", !.e = e, !.s = s] :
          e \in E, s \in ScanIds}
  \cup {[NoArg EXCEPT !.op = "PostScan", !.e = e, !.d = d] :
          e \in E, d \in D}
  \cup {[NoArg EXCEPT !.op = "MarkScan", !.e = e, !.s = s, !.p = q] :
          e \in E, s \in ScanIds, q \in P \cup {None}}

\* Sequential execution: every call.
SeqCalls == CallsOf(EventNames, PlayerIds, PlayerNames, MaxPlayers, Payloads)

\* Concurrent execution of all operations: one event, one player.
ConcCalls == CallsOf({"ev"}, {"0"}, {"a"}, MaxPlayers, {"x"})

\* Concurrent execution of the operations that write Players and Scans: one
\* event, two players.
MarkCalls ==
  {c \in CallsOf({"ev"}, PlayerIds, {"a"}, MaxPlayers, {"x"}) :
     /\ c.op \in {"CreateEvent", "SetPlayers", "PostScan", "MarkScan"}
     /\ c.op = "SetPlayers" => Len(c.ps) = MaxPlayers /\ c.ps[1].id # c.ps[2].id}

FirstPc(o) ==
  CASE o = "ListEvents" -> "le_lock"
    [] o = "CreateEvent" -> "ce_mlock"
    [] o = "DeleteEvent" -> "de_mlock"
    [] OTHER -> "ee_lock"

\* A caller starts one of the operations in `calls`.  With `sequential`, the
\* files as they are now are remembered in snap.
Call(p, calls, sequential) ==
  /\ pc[p] = "idle"
  /\ \E a \in calls :
       /\ arg' = [arg EXCEPT ![p] = a]
       /\ Goto(p, FirstPc(a.op))
  /\ nw' = [nw EXCEPT ![p] = 0]
  /\ snap' = IF sequential THEN files ELSE snap
  /\ UNCHANGED <<files, locks, loc, ret>>

\* The caller takes the result; the process is free for its next operation.
Return(p) ==
  /\ pc[p] = "done"
  /\ Goto(p, "idle")
  /\ arg' = [arg EXCEPT ![p] = NoArg]
  /\ ret' = [ret EXCEPT ![p] = NoRet]
  /\ nw' = [nw EXCEPT ![p] = 0]
  /\ UNCHANGED <<files, locks, loc>>
  /\ UNCHANGED snap

\* flock -w LOCK_TIMEOUT_SECONDS gave up: Lock raises UnavailableError.
LockTimeout(p) ==
  /\ pc[p] \in LockPcs
  /\ ~LockFree(Wanted(p).path, Wanted(p).shared)
  /\ Exit(p, "Unavailable", <<>>)
  /\ UNCHANGED <<files, arg, nw>>
  /\ UNCHANGED snap

\* ------------------------------------------------------------ event management
ListEventsLock(p) ==
  /\ pc[p] = "le_lock"
  /\ Locked(p)
  /\ Goto(p, "le_list")
  /\ UNCHANGED <<files, arg, loc, ret, nw>>
  /\ UNCHANGED snap

ListEvents(p) ==
  /\ pc[p] = "le_list"
  /\ \E order \in Orders(_List(EVENT_PREFIX, None)) : Exit(p, "ok", order)
  /\ UNCHANGED <<files, arg, nw>>
  /\ UNCHANGED snap

CreateEventMasterLock(p) ==
  /\ pc[p] = "ce_mlock"
  /\ Locked(p)
  /\ Goto(p, "ce_lock")
  /\ UNCHANGED <<files, arg, loc, ret, nw>>
  /\ UNCHANGED snap

CreateEventLock(p) ==
  /\ pc[p] = "ce_lock"
  /\ Locked(p)
  /\ Goto(p, "ce_mkdir")
  /\ UNCHANGED <<files, arg, loc, ret, nw>>
  /\ UNCHANGED snap

\* Mutant of CreateEvent: an existing directory is accepted.
CreateEventAgain(p) ==
  /\ pc[p] = "ce_mkdir"
  /\ events' = events \cup {arg[p].e}
  /\ Exit(p, "ok", <<>>)
  /\ nw' = [nw EXCEPT ![p] = @ + 1]
  /\ UNCHANGED <<players, scans, sdata>>
  /\ UNCHANGED arg
  /\ UNCHANGED snap


CreateEvent(p) ==
  /\ pc[p] = "ce_mkdir"
  /\ IF IsDir(arg[p].e)
       THEN /\ Exit(p, "AlreadyExists", <<>>)
            /\ UNCHANGED <<files, nw>>
       ELSE /\ events' = events \cup {arg[p].e}
            /\ Exit(p, "ok", <<>>)
            /\ nw' = [nw EXCEPT ![p] = @ + 1]
            /\ UNCHANGED <<players, scans, sdata>>
  /\ UNCHANGED arg
  /\ UNCHANGED snap

DeleteEventMasterLock(p) ==
  /\ pc[p] = "de_mlock"
  /\ Locked(p)
  /\ Goto(p, "de_lock")
  /\ UNCHANGED <<files, arg, loc, ret, nw>>
  /\ UNCHANGED snap

DeleteEventLock(p) ==
  /\ pc[p] = "de_lock"
  /\ Locked(p)
  /\ Goto(p, "de_rmtree")
  /\ UNCHANGED <<files, arg, loc, ret, nw>>
  /\ UNCHANGED snap

DeleteEvent(p) ==
  /\ pc[p] = "de_rmtree"
  /\ IF ~IsDir(arg[p].e)
       THEN /\ Exit(p, "NotFound", <<>>)
            /\ UNCHANGED <<files, nw>>
       ELSE /\ events' = events \ {arg[p].e}
            /\ players' = [players EXCEPT ![arg[p].e] = NoFiles]
            /\ scans' = [scans EXCEPT ![arg[p].e] = NoFiles]
            /\ sdata' = [sdata EXCEPT ![arg[p].e] = NoFiles]
            /\ Exit(p, "ok", <<>>)
            /\ nw' = [nw EXCEPT ![p] = @ + 1]
  /\ UNCHANGED arg
  /\ UNCHANGED snap

\* _EnsureEvent, entered first by every Player/Scan operation.
AfterEnsure(o) ==
  CASE o = "ListPlayers" -> "lp_mlock"
    [] o = "SetPlayers" -> "sp_mlock"
    [] o = "ListScans" -> "ls_mlock"
    [] o = "GetScan" -> "gs_mlock"
    [] o = "PostScan" -> "ps_mlock"
    [] o = "MarkScan" -> "ms_mlock"

EnsureEventLock(p) ==
  /\ pc[p] = "ee_lock"
  /\ Locked(p)
  /\ Goto(p, "ee_isdir")
  /\ UNCHANGED <<files, arg, loc, ret, nw>>
  /\ UNCHANGED snap

\* Mutant of _EnsureEvent: the event's lock is held for the check alone.
_EnsureEventChecked(p) ==
  /\ pc[p] = "ee_isdir"
  /\ IF ~IsDir(arg[p].e)
       THEN Exit(p, "NotFound", <<>>)
       ELSE /\ Goto(p, AfterEnsure(arg[p].op))
            /\ locks' = locks \ {[proc |-> p, shared |-> TRUE,
                                   path |-> _SharedLock(EVENT_PREFIX, arg[p].e, None).path]}
            /\ UNCHANGED <<loc, ret>>
  /\ UNCHANGED <<files, arg, nw>>
  /\ UNCHANGED snap


_EnsureEvent(p) ==
  /\ pc[p] = "ee_isdir"
  /\ IF ~IsDir(arg[p].e)
       THEN Exit(p, "NotFound", <<>>)
       ELSE /\ Goto(p, AfterEnsure(arg[p].op))
            /\ UNCHANGED <<locks, loc, ret>>
  /\ UNCHANGED <<files, arg, nw>>
  /\ UNCHANGED snap

\* ------------------------------------------------------------ file helpers
\* Writing file k of a directory listing f (created when absent).
Put(f, k, v) == [x \in DOMAIN f \cup {k} |-> IF x = k THEN v ELSE f[x]]

\* os.remove of file k.
Del(f, k) == [x \in DOMAIN f \ {k} |-> f[x]]

\* Leaving the innermost Lock scope, the one entered for lock l.
Left(p, l) == locks \ {[proc |-> p, path |-> l.path, shared |-> l.shared]}

_ReadPlayer(event_name, player_id) == players[event_name][player_id]

_WritePlayer(event_name, player) ==
  [players EXCEPT ![event_name] = Put(@, player.id, player)]

_ModifyPlayerScanId(event_name, player_id, scan_id) ==
  LET player == _ReadPlayer(event_name, player_id)
  IN _WritePlayer(event_name, Player(player.id, player.name, scan_id))

_ReadScan(event_name, scan_id) == scans[event_name][scan_id]

_ReadScanData(event_name, scan_id) == sdata[event_name][scan_id]

_WriteScan(event_name, scan) ==
  [scans EXCEPT ![event_name] = Put(@, scan.id, scan)]

_WriteScanData(event_name, scan_id, data) ==
  [sdata EXCEPT ![event_name] = Put(@, scan_id, data)]

\* ------------------------------------------------------------ player management
ListPlayersMasterLock(p) ==
  /\ pc[p] = "lp_mlock"
  /\ Locked(p)
  /\ Goto(p, "lp_list")
  /\ UNCHANGED <<files, arg, loc, ret, nw>>
  /\ UNCHANGED snap

ListPlayersList(p) ==
  /\ pc[p] = "lp_list"
  /\ \E order \in Orders(_List(PLAYER_PREFIX, arg[p].e)) :
       IF order = <<>>
         THEN Exit(p, "ok", <<>>)
         ELSE /\ loc' = [loc EXCEPT ![p].todo = order]
              /\ Goto(p, "lp_ilock")
              /\ UNCHANGED <<locks, ret>>
  /\ UNCHANGED <<files, arg, nw>>
  /\ UNCHANGED snap

ListPlayersItemLock(p) ==
  /\ pc[p] = "lp_ilock"
  /\ Locked(p)
  /\ Goto(p, "lp_read")
  /\ UNCHANGED <<files, arg, loc, ret, nw>>
  /\ UNCHANGED snap

ListPlayersRead(p) ==
  /\ pc[p] = "lp_read"
  /\ LET id == Head(loc[p].todo)
         rest == Tail(loc[p].todo)
     IN IF ~Exists(PLAYER_PREFIX, id, arg[p].e)
          THEN Exit(p, "IOError", <<>>)
          ELSE LET out == Append(loc[p].out, _ReadPlayer(arg[p].e, id))
               IN IF rest = <<>>
                    THEN Exit(p, "ok", out)
                    ELSE /\ loc' = [loc EXCEPT ![p].todo = rest, ![p].out = out]
                         /\ locks' = Left(p, _SharedLock(PLAYER_PREFIX, id, arg[p].e))
                         /\ Goto(p, "lp_ilock")
                         /\ UNCHANGED ret
  /\ UNCHANGED <<files, arg, nw>>
  /\ UNCHANGED snap

SetPlayersMasterLock(p) ==
  /\ pc[p] = "sp_mlock"
  /\ Locked(p)
  /\ Goto(p, "sp_list")
  /\ UNCHANGED <<files, arg, loc, ret, nw>>
  /\ UNCHANGED snap

\* Where SetPlayers goes once the existing records are removed.
SetPlayersWrites(p) ==
  IF arg[p].ps = <<>>
    THEN Exit(p, "ok", <<>>)
    ELSE /\ loc' = [loc EXCEPT ![p].todo = arg[p].ps]
         /\ Goto(p, "sp_wlock")
         /\ UNCHANGED ret

SetPlayersList(p) ==
  /\ pc[p] = "sp_list"
  /\ \E order \in Orders(_List(PLAYER_PREFIX, arg[p].e)) :
       IF order = <<>>
         THEN /\ SetPlayersWrites(p)
              /\ IF arg[p].ps = <<>> THEN TRUE ELSE UNCHANGED locks
         ELSE /\ loc' = [loc EXCEPT ![p].todo = order]
              /\ Goto(p, "sp_dlock")
              /\ UNCHANGED <<locks, ret>>
  /\ UNCHANGED <<files, arg, nw>>
  /\ UNCHANGED snap

SetPlayersRemoveLock(p) ==
  /\ pc[p] = "sp_dlock"
  /\ Locked(p)
  /\ Goto(p, "sp_remove")
  /\ UNCHANGED <<files, arg, loc, ret, nw>>
  /\ UNCHANGED snap

\* Mutant of SetPlayersRemove: the existing record is left in place.
SetPlayersKeep(p) ==
  /\ pc[p] = "sp_remove"
  /\ LET id == Head(loc[p].todo)
         rest == Tail(loc[p].todo)
     IN /\ UNCHANGED <<players, nw>>
        /\ IF rest = <<>>
             THEN /\ SetPlayersWrites(p)
                  /\ IF arg[p].ps = <<>> THEN TRUE
                     ELSE locks' = Left(p, _ExclusiveLock(PLAYER_PREFIX, id, arg[p].e))
             ELSE /\ loc' = [loc EXCEPT ![p].todo = rest]
                  /\ locks' = Left(p, _ExclusiveLock(PLAYER_PREFIX, id, arg[p].e))
                  /\ Goto(p, "sp_dlock")
                  /\ UNCHANGED ret
  /\ UNCHANGED <<events, scans, sdata, arg>>
  /\ UNCHANGED snap


SetPlayersRemove(p) ==
  /\ pc[p] = "sp_remove"
  /\ LET id == Head(loc[p].todo)
         rest == Tail(loc[p].todo)
     IN IF ~Exists(PLAYER_PREFIX, id, arg[p].e)
          THEN /\ Exit(p, "OSError", <<>>)
               /\ UNCHANGED <<players, nw>>
          ELSE /\ players' = [players EXCEPT ![arg[p].e] = Del(@, id)]
               /\ nw' = [nw EXCEPT ![p] = @ + 1]
               /\ IF rest = <<>>
                    THEN /\ SetPlayersWrites(p)
                         /\ IF arg[p].ps = <<>> THEN TRUE
                            ELSE locks' = Left(p, _ExclusiveLock(PLAYER_PREFIX, id, arg[p].e))
                    ELSE /\ loc' = [loc EXCEPT ![p].todo = rest]
                         /\ locks' = Left(p, _ExclusiveLock(PLAYER_PREFIX, id, arg[p].e))
                         /\ Goto(p, "sp_dlock")
                         /\ UNCHANGED ret
  /\ UNCHANGED <<events, scans, sdata, arg>>
  /\ UNCHANGED snap

SetPlayersWriteLock(p) ==
  /\ pc[p] = "sp_wlock"
  /\ Locked(p)
  /\ Goto(p, "sp_write")
  /\ UNCHANGED <<files, arg, loc, ret, nw>>
  /\ UNCHANGED snap

SetPlayersWrite(p) ==
  /\ pc[p] = "sp_write"
  /\ LET player == Head(loc[p].todo)
         rest == Tail(loc[p].todo)
     IN /\ players' = _WritePlayer(arg[p].e, player)
        /\ nw' = [nw EXCEPT ![p] = @ + 1]
        /\ IF rest = <<>>
             THEN Exit(p, "ok", <<>>)
             ELSE /\ loc' = [loc EXCEPT ![p].todo = rest]
                  /\ locks' = Left(p, _ExclusiveLock(PLAYER_PREFIX, player.id, arg[p].e))
                  /\ Goto(p, "sp_wlock")
                  /\ UNCHANGED ret
  /\ UNCHANGED <<events, scans, sdata, arg>>
  /\ UNCHANGED snap

\* ------------------------------------------------------------ scan management
ListScansMasterLock(p) ==
  /\ pc[p] = "ls_mlock"
  /\ Locked(p)
  /\ Goto(p, "ls_list")
  /\ UNCHANGED <<files, arg, loc, ret, nw>>
  /\ UNCHANGED snap

ListScansList(p) ==
  /\ pc[p] = "ls_list"
  /\ \E order \in Orders(_List(SCAN_PREFIX, arg[p].e)) :
       IF order = <<>>
         THEN Exit(p, "ok", <<>>)
         ELSE /\ loc' = [loc EXCEPT ![p].todo = order]
              /\ Goto(p, "ls_ilock")
              /\ UNCHANGED <<locks, ret>>
  /\ UNCHANGED <<files, arg, nw>>
  /\ UNCHANGED snap

ListScansItemLock(p) ==
  /\ pc[p] = "ls_ilock"
  /\ Locked(p)
  /\ Goto(p, "ls_read")
  /\ UNCHANGED <<files, arg, loc, ret, nw>>
  /\ UNCHANGED snap

\* Mutant of Listed: unmarked_only is ignored.
ListedAll(unmarked_only, scan) == TRUE

\* The filter of ListScans: `not unmarked_only or scan.player_id is None`.
Listed(unmarked_only, scan) == ~unmarked_only \/ scan.player_id = None

ListScansRead(p) ==
  /\ pc[p] = "ls_read"
  /\ LET id == Head(loc[p].todo)
         rest == Tail(loc[p].todo)
     IN IF ~Exists(SCAN_PREFIX, id, arg[p].e)
          THEN Exit(p, "IOError", <<>>)
          ELSE LET scan == _ReadScan(arg[p].e, id)
                   out == IF Listed(arg[p].u, scan)
                            THEN Append(loc[p].out, scan) ELSE loc[p].out
               IN IF rest = <<>>
                    THEN Exit(p, "ok", out)
                    ELSE /\ loc' = [loc EXCEPT ![p].todo = rest, ![p].out = out]
                         /\ locks' = Left(p, _SharedLock(SCAN_PREFIX, id, arg[p].e))
                         /\ Goto(p, "ls_ilock")
                         /\ UNCHANGED ret
  /\ UNCHANGED <<files, arg, nw>>
  /\ UNCHANGED snap

GetScanMasterLock(p) ==
  /\ pc[p] = "gs_mlock"
  /\ Locked(p)
  /\ Goto(p, "gs_exists")
  /\ UNCHANGED <<files, arg, loc, ret, nw>>
  /\ UNCHANGED snap

GetScanExists(p) ==
  /\ pc[p] = "gs_exists"
  /\ IF ~Exists(SCAN_PREFIX, arg[p].s, arg[p].e)
       THEN Exit(p, "NotFound", <<>>)
       ELSE /\ Goto(p, "gs_ilock")
            /\ UNCHANGED <<locks, loc, ret>>
  /\ UNCHANGED <<files, arg, nw>>
  /\ UNCHANGED snap

GetScanItemLock(p) ==
  /\ pc[p] = "gs_ilock"
  /\ Locked(p)
  /\ Goto(p, "gs_read")
  /\ UNCHANGED <<files, arg, loc, ret, nw>>
  /\ UNCHANGED snap

\* Mutant of GetScan: the record is returned as stored, without its payload.
GetScanNoData(p) ==
  /\ pc[p] = "gs_read"
  /\ IF ~Exists(SCAN_PREFIX, arg[p].s, arg[p].e)
       THEN Exit(p, "IOError", <<>>)
       ELSE Exit(p, "ok", <<_ReadScan(arg[p].e, arg[p].s)>>)
  /\ UNCHANGED <<files, arg, nw>>
  /\ UNCHANGED snap


GetScan(p) ==
  /\ pc[p] = "gs_read"
  /\ IF ~Exists(SCAN_PREFIX, arg[p].s, arg[p].e)
       THEN Exit(p, "IOError", <<>>)
       ELSE LET scan == _ReadScan(arg[p].e, arg[p].s)
            IN IF Exists(SCAN_DATA_PREFIX, arg[p].s, arg[p].e)
                 THEN Exit(p, "ok", <<Scan(scan.id, scan.player_id,
                                           _ReadScanData(arg[p].e, arg[p].s))>>)
                 ELSE Exit(p, "ok", <<scan>>)
  /\ UNCHANGED <<files, arg, nw>>
  /\ UNCHANGED snap

PostScanMasterLock(p) ==
  /\ pc[p] = "ps_mlock"
  /\ Locked(p)
  /\ Goto(p, "ps_newid")
  /\ UNCHANGED <<files, arg, loc, ret, nw>>
  /\ UNCHANGED snap

\* Mutant of _GetScanId: the drawn token is kept without looking for a record.
_GetScanIdUnchecked(p) ==
  /\ pc[p] = "ps_newid"
  /\ \E scan_id \in ScanIds : loc' = [loc EXCEPT ![p].id = scan_id]
  /\ Goto(p, "ps_ilock")
  /\ UNCHANGED <<files, locks, arg, ret, nw>>
  /\ UNCHANGED snap

\* One round of the loop of _GetScanId: draw a token, keep it when no Scan
\* record of that name exists, draw again otherwise.
_GetScanId(p) ==
  /\ pc[p] = "ps_newid"
  /\ \E scan_id \in ScanIds :
       /\ loc' = [loc EXCEPT ![p].id = scan_id]
       /\ IF Exists(SCAN_PREFIX, scan_id, arg[p].e)
            THEN Goto(p, "ps_newid")
            ELSE Goto(p, "ps_ilock")
  /\ UNCHANGED <<files, locks, arg, ret, nw>>
  /\ UNCHANGED snap

PostScanItemLock(p) ==
  /\ pc[p] = "ps_ilock"
  /\ Locked(p)
  /\ Goto(p, "ps_wscan")
  /\ UNCHANGED <<files, arg, loc, ret, nw>>
  /\ UNCHANGED snap

PostScanWriteScan(p) ==
  /\ pc[p] = "ps_wscan"
  /\ scans' = _WriteScan(arg[p].e, Scan(loc[p].id, None, None))
  /\ nw' = [nw EXCEPT ![p] = @ + 1]
  /\ Goto(p, "ps_wdata")
  /\ UNCHANGED <<events, players, sdata, locks, arg, loc, ret>>
  /\ UNCHANGED snap

PostScan(p) ==
  /\ pc[p] = "ps_wdata"
  /\ sdata' = _WriteScanData(arg[p].e, loc[p].id, arg[p].d)
  /\ nw' = [nw EXCEPT ![p] = @ + 1]
  /\ Exit(p, "ok", <<loc[p].id>>)
  /\ UNCHANGED <<events, players, scans, arg>>
  /\ UNCHANGED snap

MarkScanMasterLock(p) ==
  /\ pc[p] = "ms_mlock"
  /\ Locked(p)
  /\ Goto(p, "ms_exists")
  /\ UNCHANGED <<files, arg, loc, ret, nw>>
  /\ UNCHANGED snap

MarkScanExists(p) ==
  /\ pc[p] = "ms_exists"
  /\ IF ~Exists(SCAN_PREFIX, arg[p].s, arg[p].e)
       THEN Exit(p, "NotFound", <<>>)
       ELSE /\ Goto(p, "ms_slock")
            /\ UNCHANGED <<locks, loc, ret>>
  /\ UNCHANGED <<files, arg, nw>>
  /\ UNCHANGED snap

\* Mutant of MarkScanScanLock: the new player's item lock is not requested.
MarkScanScanLockOnly(p) ==
  /\ pc[p] = "ms_slock"
  /\ Locked(p)
  /\ Goto(p, IF arg[p].p # None THEN "ms_pexists" ELSE "ms_read")
  /\ UNCHANGED <<files, arg, loc, ret, nw>>
  /\ UNCHANGED snap


MarkScanScanLock(p) ==
  /\ pc[p] = "ms_slock"
  /\ Locked(p)
  /\ Goto(p, IF arg[p].p # None THEN "ms_plock" ELSE "ms_read")
  /\ UNCHANGED <<files, arg, loc, ret, nw>>
  /\ UNCHANGED snap

MarkScanNewPlayerLock(p) ==
  /\ pc[p] = "ms_plock"
  /\ Locked(p)
  /\ Goto(p, "ms_pexists")
  /\ UNCHANGED <<files, arg, loc, ret, nw>>
  /\ UNCHANGED snap

\* Mutant of MarkScanPlayerExists: the player's record is not looked for.
MarkScanPlayerUnchecked(p) ==
  /\ pc[p] = "ms_pexists"
  /\ Goto(p, "ms_read")
  /\ UNCHANGED <<files, locks, arg, loc, ret, nw, snap>>

MarkScanPlayerExists(p) ==
  /\ pc[p] = "ms_pexists"
  /\ IF ~Exists(PLAYER_PREFIX, arg[p].p, arg[p].e)
       THEN Exit(p, "NotFound", <<>>)
       ELSE /\ Goto(p, "ms_read")
            /\ UNCHANGED <<locks, loc, ret>>
  /\ UNCHANGED <<files, arg, nw>>
  /\ UNCHANGED snap

\* Mutant of AlreadyMarked: the short-circuit is never taken.
AlreadyMarkedNever(player_id, existing_scan) == FALSE

\* `if player_id == existing_scan.player_id: return`
AlreadyMarked(player_id, existing_scan) == player_id = existing_scan.player_id

MarkScanRead(p) ==
  /\ pc[p] = "ms_read"
  /\ IF ~Exists(SCAN_PREFIX, arg[p].s, arg[p].e)
       THEN Exit(p, "IOError", <<>>)
       ELSE LET existing_scan == _ReadScan(arg[p].e, arg[p].s)
            IN IF AlreadyMarked(arg[p].p, existing_scan)
                 THEN Exit(p, "ok", <<>>)
                 ELSE /\ loc' = [loc EXCEPT ![p].old = existing_scan.player_id]
                      /\ Goto(p, "ms_wscan")
                      /\ UNCHANGED <<locks, ret>>
  /\ UNCHANGED <<files, arg, nw>>
  /\ UNCHANGED snap

\* Mutant of MarkScanWriteScan: the record is written with its (empty) data,
\* payload file included.
MarkScanWriteScanData(p) ==
  /\ pc[p] = "ms_wscan"
  /\ scans' = _WriteScan(arg[p].e, Scan(arg[p].s, arg[p].p, None))
  /\ sdata' = _WriteScanData(arg[p].e, arg[p].s, None)
  /\ nw' = [nw EXCEPT ![p] = @ + 1]
  /\ Goto(p, IF loc[p].old # None THEN "ms_olock" ELSE "ms_set")
  /\ UNCHANGED <<events, players, locks, arg, loc, ret>>
  /\ UNCHANGED snap


MarkScanWriteScan(p) ==
  /\ pc[p] = "ms_wscan"
  /\ scans' = _WriteScan(arg[p].e, Scan(arg[p].s, arg[p].p, None))
  /\ nw' = [nw EXCEPT ![p] = @ + 1]
  /\ Goto(p, IF loc[p].old # None THEN "ms_olock" ELSE "ms_set")
  /\ UNCHANGED <<events, players, sdata, locks, arg, loc, ret>>
  /\ UNCHANGED snap

MarkScanOldPlayerLock(p) ==
  /\ pc[p] = "ms_olock"
  /\ Locked(p)
  /\ Goto(p, "ms_clear")
  /\ UNCHANGED <<files, arg, loc, ret, nw>>
  /\ UNCHANGED snap

\* Mutant of MarkScanClearOld: the previous owner's record is left as it is.
MarkScanKeepOld(p) ==
  /\ pc[p] = "ms_clear"
  /\ IF arg[p].p # None
       THEN /\ Goto(p, "ms_set")
            /\ UNCHANGED <<locks, loc, ret>>
       ELSE Exit(p, "ok", <<>>)
  /\ UNCHANGED <<files, arg, nw>>
  /\ UNCHANGED snap

\* `if existing_scan.player_id is not None: _ModifyPlayerScanId(..., None)`
MarkScanClearOld(p) ==
  /\ pc[p] = "ms_clear"
  /\ IF ~Exists(PLAYER_PREFIX, loc[p].old, arg[p].e)
       THEN /\ Exit(p, "IOError", <<>>)
            /\ UNCHANGED <<players, nw>>
       ELSE /\ players' = _ModifyPlayerScanId(arg[p].e, loc[p].old, None)
            /\ nw' = [nw EXCEPT ![p] = @ + 1]
            /\ IF arg[p].p # None
                 THEN /\ Goto(p, "ms_set")
                      /\ UNCHANGED <<locks, loc, ret>>
                 ELSE Exit(p, "ok", <<>>)
  /\ UNCHANGED <<events, scans, sdata, arg>>
  /\ UNCHANGED snap

\* `if player_id is not None: _ModifyPlayerScanId(..., scan_id)`
MarkScan(p) ==
  /\ pc[p] = "ms_set"
  /\ IF ~Exists(PLAYER_PREFIX, arg[p].p, arg[p].e)
       THEN /\ Exit(p, "IOError", <<>>)
            /\ UNCHANGED <<players, nw>>
       ELSE /\ players' = _ModifyPlayerScanId(arg[p].e, arg[p].p, arg[p].s)
            /\ nw' = [nw EXCEPT ![p] = @ + 1]
            /\ Exit(p, "ok", <<>>)
  /\ UNCHANGED <<events, scans, sdata, arg>>
  /\ UNCHANGED snap

\* ------------------------------------------------------------ specifications
EventSteps(p) ==
  \/ ListEventsLock(p)
  \/ ListEvents(p)
  \/ CreateEventMasterLock(p)
  \/ CreateEventLock(p)
  \/ CreateEvent(p)
  \/ DeleteEventMasterLock(p)
  \/ DeleteEventLock(p)
  \/ DeleteEvent(p)

ReadSteps(p) ==
  \/ ListPlayersMasterLock(p)
  \/ ListPlayersList(p)
  \/ ListPlayersItemLock(p)
  \/ ListPlayersRead(p)
  \/ ListScansMasterLock(p)
  \/ ListScansList(p)
  \/ ListScansItemLock(p)
  \/ ListScansRead(p)
  \/ GetScanMasterLock(p)
  \/ GetScanExists(p)
  \/ GetScanItemLock(p)
  \/ GetScan(p)

WriteSteps(p) ==
  \/ EnsureEventLock(p)
  \/ _EnsureEvent(p)
  \/ SetPlayersMasterLock(p)
  \/ SetPlayersList(p)
  \/ SetPlayersRemoveLock(p)
  \/ SetPlayersRemove(p)
  \/ SetPlayersWriteLock(p)
  \/ SetPlayersWrite(p)
  \/ PostScanMasterLock(p)
  \/ _GetScanId(p)
  \/ PostScanItemLock(p)
  \/ PostScanWriteScan(p)
  \/ PostScan(p)
  \/ MarkScanMasterLock(p)
  \/ MarkScanExists(p)
  \/ MarkScanScanLock(p)
  \/ MarkScanNewPlayerLock(p)
  \/ MarkScanPlayerExists(p)
  \/ MarkScanRead(p)
  \/ MarkScanWriteScan(p)
  \/ MarkScanOldPlayerLock(p)
  \/ MarkScanClearOld(p)
  \/ MarkScan(p)

\* Concurrent execution: any process takes the next step of its operation,
\* or gives up waiting for a lock that is not free.
Next ==
  \E p \in Procs :
    \/ Call(p, ConcCalls, FALSE)
    \/ Return(p)
    \/ EventSteps(p)
    \/ ReadSteps(p)
    \/ WriteSteps(p)
    \/ LockTimeout(p)

Spec == Init /\ [][Next]_vars

\* Concurrent execution of CreateEvent, SetPlayers, PostScan and MarkScan.
MarkNext ==
  \E p \in Procs :
    \/ Call(p, MarkCalls, FALSE)
    \/ Return(p)
    \/ CreateEventMasterLock(p)
    \/ CreateEventLock(p)
    \/ CreateEvent(p)
    \/ WriteSteps(p)
    \/ LockTimeout(p)

MarkSpec == Init /\ [][MarkNext]_vars

\* Sequential execution: one operation at a time, no lock ever waited for.
SeqNext ==
  \/ Call(SeqProc, SeqCalls, TRUE)
  \/ Return(SeqProc)
  \/ EventSteps(SeqProc)
  \/ ReadSteps(SeqProc)
  \/ WriteSteps(SeqProc)

SeqSpec == Init /\ [][SeqNext]_vars

\* ------------------------------------------------------------ properties
\* The operation of the sequential process has returned or raised.
SeqDone(o) == pc[SeqProc] = "done" /\ arg[SeqProc].op = o

SeqOk(o) == SeqDone(o) /\ ret[SeqProc].status = "ok"

\* The files as they were when the sequential operation was called.
snapEvents == snap[1]
snapPlayers == snap[2]
snapScans == snap[3]
snapData == snap[4]

\* I1 (symmetry) among the Player records pl and Scan records sc of an event.
I1(pl, sc) ==
  \A s \in DOMAIN sc, q \in DOMAIN pl :
    (sc[s].player_id = q) <=> (pl[q].scan_id = s)

\* I2 (bijection) among the Player records pl and Scan records sc of an event.
I2(pl, sc) ==
  /\ \A q \in DOMAIN pl : Cardinality({s \in DOMAIN sc : sc[s].player_id = q}) <= 1
  /\ \A s \in DOMAIN sc : Cardinality({q \in DOMAIN pl : pl[q].scan_id = s}) <= 1

\* C1: I1 after MarkScan. In sequential execution, a MarkScan call that
\* completes on an event whose records satisfied I1 when it was called (as
\* they do when every Scan is unmarked and every Player free, and after every
\* MarkScan if the claim holds) leaves them satisfying I1.
C1_I1AfterMarkScan ==
  \A e \in EventNames :
    (SeqOk("MarkScan") /\ arg[SeqProc].e = e /\ I1(snapPlayers[e], snapScans[e]))
      => I1(players[e], scans[e])

\* C2: I2 bijection. Whenever the sequential process is between operations,
\* each Player id is the player_id of at most one Scan record and each Scan id
\* the scan_id of at most one Player record.
C2_I2Bijection ==
  \A e \in EventNames :
    pc[SeqProc] \in {"idle", "done"} => I2(players[e], scans[e])

\* The sequential process is in MarkScan(e, s, p), called on a scan whose
\* owner was q.
Remarking(e, s, p, q) ==
  /\ pc[SeqProc] # "idle" /\ arg[SeqProc].op = "MarkScan"
  /\ arg[SeqProc].e = e /\ arg[SeqProc].s = s /\ arg[SeqProc].p = p
  /\ e \in snapEvents
  /\ s \in DOMAIN snapScans[e]
  /\ snapScans[e][s].player_id = q

\* That MarkScan has completed.
Remarked(e, s, p, q) == Remarking(e, s, p, q) /\ SeqOk("MarkScan")

\* C3: MarkScan transition result. When MarkScan(e, s, p) completes on a scan
\* whose previous owner q differs from p, Scan s has player_id = p, Player q
\* (if any) has scan_id = none and Player p (if any) has scan_id = s.
C3_MarkScanResult ==
  \A e \in EventNames, s \in ScanIds, p \in PlayerIds \cup {None},
     q \in PlayerIds \cup {None} :
    (Remarked(e, s, p, q) /\ q # p) =>
      /\ scans[e][s].player_id = p
      /\ q # None => players[e][q].scan_id = None
      /\ p # None => players[e][p].scan_id = s

\* C3 witness: a scan has been moved from one player to another.
C3_Witness ==
  \E e \in EventNames, s \in ScanIds, p \in PlayerIds, q \in PlayerIds :
    Remarked(e, s, p, q) /\ q # p

\* C4: MarkScan idempotence. A MarkScan(e, s, p) called when Scan s already
\* has player_id = p writes no file, at no step up to its end: all records and
\* payloads are as they were when it was called.
C4_MarkScanIdempotent ==
  \A e \in EventNames, s \in ScanIds, p \in PlayerIds \cup {None} :
    Remarking(e, s, p, p) =>
      /\ nw[SeqProc] = 0
      /\ files = snap

\* C4 witness: a scan marked for a player has been marked for that player again.
C4_Witness ==
  \E e \in EventNames, s \in ScanIds, p \in PlayerIds : Remarked(e, s, p, p)

\* C5: MarkScan on an existing event, with a scan id that has no Scan record
\* or a player id that has no Player record, fails with NotFound, changes no
\* file and leaves no lock held.
C5_MarkScanNotFound ==
  LET a == arg[SeqProc]
  IN (/\ SeqDone("MarkScan")
      /\ a.e \in snapEvents
      /\ \/ a.s \notin DOMAIN snapScans[a.e]
         \/ a.p # None /\ a.p \notin DOMAIN snapPlayers[a.e])
       => /\ ret[SeqProc].status = "NotFound"
          /\ nw[SeqProc] = 0
          /\ files = snap
          /\ HeldBy(SeqProc) = {}

\* C5 witness: MarkScan has failed on an existing scan for want of the player,
\* in an event that holds another player.
C5_Witness ==
  LET a == arg[SeqProc]
  IN /\ SeqDone("MarkScan")
     /\ a.e \in snapEvents
     /\ a.s \in DOMAIN snapScans[a.e]
     /\ a.p # None /\ a.p \notin DOMAIN snapPlayers[a.e]
     /\ DOMAIN snapPlayers[a.e] # {}
     /\ ret[SeqProc].status = "NotFound"

PlayerScanOps == {"ListPlayers", "SetPlayers", "ListScans", "GetScan", "PostScan",
                  "MarkScan"}

\* C6: every Player/Scan operation called on an event name that does not exist
\* fails with NotFound and changes no event, record or payload.
C6_AbsentEventNotFound ==
  (/\ pc[SeqProc] = "done"
   /\ arg[SeqProc].op \in PlayerScanOps
   /\ arg[SeqProc].e \notin snapEvents)
    => /\ ret[SeqProc].status = "NotFound"
       /\ nw[SeqProc] = 0
       /\ files = snap

\* C6 witness: PostScan has failed on an absent event while another event
\* holds players and scans.
C6_Witness ==
  /\ SeqDone("PostScan")
  /\ arg[SeqProc].e \notin snapEvents
  /\ ret[SeqProc].status = "NotFound"
  /\ \E e \in events : DOMAIN players[e] # {} /\ DOMAIN scans[e] # {}

\* Process p takes a step of its operation.
Steps(p) == pc'[p] # pc[p] \/ loc'[p] # loc[p]

\* Process p is in PostScan with the token it has accepted as the new scan id.
Posting(p, e, id) ==
  /\ pc[p] \in {"ps_ilock", "ps_wscan", "ps_wdata"}
  /\ arg[p].e = e
  /\ loc[p].id = id

\* C7: concurrent PostScan calls. A PostScan writes the Scan record only of
\* an id that has no Scan record, and returns an id only if that id has no
\* payload yet (no PostScan that completed on the event has returned it) and
\* no other PostScan in progress on the event has accepted the same id.
C7_PostScanFresh ==
  [][\A p \in Procs :
       /\ (pc[p] = "ps_wscan" /\ pc'[p] = "ps_wdata") =>
            /\ ~Exists(SCAN_PREFIX, loc[p].id, arg[p].e)
            /\ \A q \in Procs \ {p} : ~Posting(q, arg[p].e, loc[p].id)
       /\ (pc[p] = "ps_wdata" /\ pc'[p] = "done") =>
            /\ ret'[p].value = <<loc[p].id>>
            /\ ~Exists(SCAN_DATA_PREFIX, loc[p].id, arg[p].e)
            /\ scans[arg[p].e][loc[p].id] = Scan(loc[p].id, None, None)
            /\ \A q \in Procs \ {p} : ~Posting(q, arg[p].e, loc[p].id)]_vars

\* C7 witness: a PostScan is about to return while another PostScan on the
\* same event, which already holds a scan, is waiting.
C7_Witness ==
  \E p \in Procs, q \in Procs :
    /\ p # q
    /\ pc[p] = "ps_wdata"
    /\ pc[q] = "ps_mlock" /\ arg[q].e = arg[p].e
    /\ DOMAIN sdata[arg[p].e] # {}

\* C8: lock release on every exit path. A process whose operation has
\* returned or raised, with whatever result, holds no lock.
C8_NoLockAfterExit ==
  \A p \in Procs : pc[p] \in {"idle", "done"} => HeldBy(p) = {}

\* C8 witness: an operation has raised Unavailable at a lock it requested
\* after it had written a file under locks acquired earlier.
C8_Witness ==
  \E p \in Procs :
    pc[p] = "done" /\ ret[p].status = "Unavailable" /\ nw[p] > 0

\* Process q holds the master lock of the collection `prefix` of event e
\* exclusively.
HoldsMaster(q, prefix, e) ==
  [proc |-> q, path |-> _GetPath(MASTER_PREFIX, prefix, e, TRUE), shared |-> FALSE]
    \in locks

\* The steps that read or write a Player record / a Scan record.
PlayerAccessPcs == {"lp_read", "sp_remove", "sp_write", "ms_pexists", "ms_clear",
                    "ms_set"}
ScanAccessPcs == {"ls_read", "gs_exists", "gs_read", "ps_newid", "ps_wscan",
                  "ms_exists", "ms_read", "ms_wscan"}

\* C9: while a process holds the players-master lock of an event exclusively
\* no other process reads or writes a Player record of the event, and while
\* one holds the scans-master lock exclusively no other process reads or
\* writes a Scan record of the event.
C9_MasterExcludesItems ==
  [][\A p \in Procs : \A q \in Procs \ {p} :
       /\ (Steps(p) /\ pc[p] \in PlayerAccessPcs) =>
            ~HoldsMaster(q, PLAYER_PREFIX, arg[p].e)
       /\ (Steps(p) /\ pc[p] \in ScanAccessPcs) =>
            ~HoldsMaster(q, SCAN_PREFIX, arg[p].e)]_vars

\* Process p waits for a lock that process q holds.
WaitsFor(p, q) ==
  /\ pc[p] \in LockPcs
  /\ \E l \in HeldBy(q) :
       l.path = Wanted(p).path /\ ~(l.shared /\ Wanted(p).shared)

\* C10: no circular wait. There is no set of operations each of which waits
\* for a lock held by another operation of the set.
C10_NoCircularWait ==
  ~ \E W \in SUBSET Procs :
      /\ W # {}
      /\ \A p \in W : \E q \in W \ {p} : WaitsFor(p, q)

\* C11: abort on lock timeout leaves no partial mutation. An operation that
\* has raised Unavailable has written, created or removed no file: none of
\* its writes or deletions survives.
C11_NoPartialMutationOnTimeout ==
  \A p \in Procs :
    (pc[p] = "done" /\ ret[p].status = "Unavailable") => nw[p] = 0

\* The sequential process has returned from GetScan(e, s) with the one record r.
Got(e, s, r) ==
  /\ SeqOk("GetScan")
  /\ arg[SeqProc].e = e /\ arg[SeqProc].s = s
  /\ ret[SeqProc].value = <<r>>

\* C12: PostScan/GetScan round trip. A PostScan(e, data) that completes
\* returns an id that named no Scan record and no payload of e when it was
\* called, and leaves under that id the record {id, player = none} and the
\* payload data; a GetScan(e, id) that completes returns the Scan record of id
\* as it was when called, with the payload stored under id as its data. So a
\* GetScan called on the files a PostScan left returns {id, none, data}.
C12_PostGetRoundTrip ==
  /\ \A e \in EventNames, id \in ScanIds :
       (SeqOk("PostScan") /\ arg[SeqProc].e = e /\ ret[SeqProc].value = <<id>>) =>
         /\ id \notin DOMAIN snapScans[e] /\ id \notin DOMAIN snapData[e]
         /\ scans = [snapScans EXCEPT ![e] = Put(@, id, Scan(id, None, None))]
         /\ sdata = [snapData EXCEPT ![e] = Put(@, id, arg[SeqProc].d)]
         /\ events = snapEvents /\ players = snapPlayers
  /\ \A e \in EventNames, s \in ScanIds :
       (SeqOk("GetScan") /\ arg[SeqProc].e = e /\ arg[SeqProc].s = s) =>
         /\ s \in DOMAIN snapScans[e] /\ s \in DOMAIN snapData[e]
         /\ Got(e, s, Scan(s, snapScans[e][s].player_id, snapData[e][s]))
         /\ files = snap
  /\ SeqOk("PostScan") => Len(ret[SeqProc].value) = 1

\* C12 witness: GetScan has returned an unmarked scan with its payload, which
\* is not the payload of the other scan of the event.
C12_Witness ==
  \E e \in EventNames, s \in ScanIds, t \in ScanIds :
    /\ Got(e, s, Scan(s, None, sdata[e][s]))
    /\ t # s /\ t \in DOMAIN sdata[e] /\ sdata[e][t] # sdata[e][s]

\* The player Scan s of event e was marked for when the sequential operation
\* was called (none when there is no such record).
Owner(e, s) ==
  IF e \in snapEvents /\ s \in DOMAIN snapScans[e]
    THEN snapScans[e][s].player_id
    ELSE None

\* C13: MarkScan frame. At every step of a MarkScan(e, s, p) call, up to and
\* including its end, every payload, every Scan record other than s and every
\* Player record other than p and the previous owner of s is as it was when
\* the call began, and no file has been created or removed. In particular the
\* payload of s is what it was.
C13_MarkScanFrame ==
  \A e \in EventNames, s \in ScanIds, p \in PlayerIds \cup {None} :
    ( /\ pc[SeqProc] # "idle" /\ arg[SeqProc].op = "MarkScan"
      /\ arg[SeqProc].e = e /\ arg[SeqProc].s = s /\ arg[SeqProc].p = p ) =>
      /\ sdata = snapData
      /\ events = snapEvents
      /\ \A f \in EventNames :
           /\ DOMAIN scans[f] = DOMAIN snapScans[f]
           /\ DOMAIN players[f] = DOMAIN snapPlayers[f]
           /\ \A t \in DOMAIN scans[f] :
                (f # e \/ t # s) => scans[f][t] = snapScans[f][t]
           /\ \A r \in DOMAIN players[f] :
                (f # e \/ (r # p /\ r # Owner(e, s))) =>
                  players[f][r] = snapPlayers[f][r]

\* C13 witness: an unmarked scan that has a payload has been marked for a
\* player while another scan, with another payload, is marked for the other
\* player.
C13_Witness ==
  \E e \in EventNames, s \in ScanIds, t \in ScanIds, p \in PlayerIds, r \in PlayerIds :
    /\ Remarked(e, s, p, None)
    /\ t # s /\ r # p
    /\ r \in DOMAIN players[e] /\ players[e][r].scan_id = t
    /\ t \in DOMAIN scans[e] /\ scans[e][t].player_id = r
    /\ s \in DOMAIN sdata[e] /\ t \in DOMAIN sdata[e] /\ sdata[e][s] # sdata[e][t]

\* The set of the elements of a sequence.
Range(sq) == {sq[i] : i \in 1..Len(sq)}

\* The Player files a list of players leaves when written in order: one per
\* id, holding the last record of the list with that id.
Replaced(ps) ==
  [id \in {ps[i].id : i \in 1..Len(ps)} |->
     ps[CHOOSE i \in 1..Len(ps) :
          ps[i].id = id /\ \A j \in (i + 1)..Len(ps) : ps[j].id # id]]

\* C14: SetPlayers is a bulk replace. A SetPlayers(e, P) that completes leaves
\* as the Player records of e exactly one record per id of P, the last of P
\* with that id, whatever records there were, and touches nothing else; a
\* ListPlayers(e) that completes returns each Player record of e once and
\* nothing else. So ListPlayers on the files SetPlayers left returns the
\* records of P, last occurrence per id.
C14_SetPlayersReplaces ==
  \A e \in EventNames :
    /\ (SeqOk("SetPlayers") /\ arg[SeqProc].e = e) =>
         /\ players = [snapPlayers EXCEPT ![e] = Replaced(arg[SeqProc].ps)]
         /\ events = snapEvents /\ scans = snapScans /\ sdata = snapData
    /\ (SeqOk("ListPlayers") /\ arg[SeqProc].e = e) =>
         /\ Range(ret[SeqProc].value) = {snapPlayers[e][q] : q \in DOMAIN snapPlayers[e]}
         /\ Len(ret[SeqProc].value) = Cardinality(DOMAIN snapPlayers[e])
         /\ files = snap

\* C14 witness: SetPlayers has completed with a list that names one id twice,
\* with different names, on an event that had a player of another id.
C14_Witness ==
  \E e \in EventNames :
    /\ SeqOk("SetPlayers") /\ arg[SeqProc].e = e
    /\ Len(arg[SeqProc].ps) = 2
    /\ arg[SeqProc].ps[1].id = arg[SeqProc].ps[2].id
    /\ arg[SeqProc].ps[1].name # arg[SeqProc].ps[2].name
    /\ DOMAIN snapPlayers[e] \ {arg[SeqProc].ps[1].id} # {}

\* C15: event membership. A CreateEvent(e) succeeds exactly when e did not
\* exist and then adds e, and nothing else, to the events; when e existed it
\* raises AlreadyExists and leaves every file as it was. A DeleteEvent(e) that
\* succeeds leaves the events without e. ListEvents returns each event once
\* and nothing else. So ListEvents on the files a successful CreateEvent(e)
\* left contains e exactly once, and on those a DeleteEvent(e) left, not at all.
C15_EventMembership ==
  /\ \A e \in EventNames :
       /\ (SeqDone("CreateEvent") /\ arg[SeqProc].e = e) =>
            /\ ret[SeqProc].status = (IF e \in snapEvents THEN "AlreadyExists" ELSE "ok")
            /\ events = snapEvents \cup {e}
            /\ e \in snapEvents => (files = snap /\ nw[SeqProc] = 0)
            /\ <<players, scans, sdata>> = <<snapPlayers, snapScans, snapData>>
       /\ (SeqOk("DeleteEvent") /\ arg[SeqProc].e = e) =>
            /\ e \in snapEvents
            /\ events = snapEvents \ {e}
  /\ SeqDone("ListEvents") =>
       /\ ret[SeqProc].status = "ok"
       /\ Range(ret[SeqProc].value) = snapEvents
       /\ Len(ret[SeqProc].value) = Cardinality(snapEvents)
       /\ files = snap

\* C15 witness: CreateEvent has raised AlreadyExists on an event that holds a
\* Player record and a Scan record.
C15_Witness ==
  \E e \in EventNames :
    /\ SeqDone("CreateEvent") /\ arg[SeqProc].e = e
    /\ ret[SeqProc].status = "AlreadyExists"
    /\ DOMAIN players[e] # {} /\ DOMAIN scans[e] # {}

\* C16: ListScans filtering. A ListScans(e) that completes returns one entry
\* per Scan record of e, each with data = none; with unmarkedOnly it returns
\* one entry per Scan record whose player_id is none and no other. So a scan
\* that MarkScan gave a player is absent from the unmarked-only listing, and
\* present again once MarkScan has set its player to none.
C16_ListScansFilter ==
  \A e \in EventNames, u \in BOOLEAN :
    (SeqOk("ListScans") /\ arg[SeqProc].e = e /\ arg[SeqProc].u = u) =>
      LET ids == {s \in DOMAIN snapScans[e] : u => snapScans[e][s].player_id = None}
      IN /\ Range(ret[SeqProc].value) = {snapScans[e][s] : s \in ids}
         /\ Len(ret[SeqProc].value) = Cardinality(ids)
         /\ \A i \in 1..Len(ret[SeqProc].value) : ret[SeqProc].value[i].data = None
         /\ \A s \in ids : snapScans[e][s].id = s
         /\ files = snap

\* C16 witness: an unmarked-only listing has returned one scan of an event
\* that also has a scan marked for a player.
C16_Witness ==
  \E e \in EventNames, s \in ScanIds :
    /\ SeqOk("ListScans") /\ arg[SeqProc].e = e /\ arg[SeqProc].u
    /\ Len(ret[SeqProc].value) = 1
    /\ s \in DOMAIN scans[e] /\ scans[e][s].player_id \in PlayerIds

\* How far into MarkScan's nest of Lock scopes each of its steps is.
MarkScanDepth(label) ==
  CASE label = "ee_lock" -> 0
    [] label \in {"ee_isdir", "ms_mlock"} -> 1
    [] label \in {"ms_exists", "ms_slock"} -> 2
    [] label = "ms_plock" -> 3
    [] label \in {"ms_pexists", "ms_read", "ms_wscan", "ms_olock"} -> 4
    [] label \in {"ms_clear", "ms_set"} -> 5
    [] OTHER -> 0

\* The lock of process p on a lock file.
Holds(p, shared, prefix, name, event_name) ==
  [proc |-> p, path |-> _GetPath(prefix, name, event_name, TRUE), shared |-> shared]

\* The locks the claim has MarkScan hold at each step: the event item
\* (shared), then the scans-master (shared), then the scan item (exclusive),
\* then the new player's item (exclusive, when a player is given), then the
\* previous owner's item (exclusive, when there is one).
MarkScanLocks(p) ==
  LET a == arg[p]
      n == MarkScanDepth(pc[p])
  IN (IF n >= 1 THEN {Holds(p, TRUE, EVENT_PREFIX, a.e, None)} ELSE {})
     \cup (IF n >= 2 THEN {Holds(p, TRUE, MASTER_PREFIX, SCAN_PREFIX, a.e)} ELSE {})
     \cup (IF n >= 3 THEN {Holds(p, FALSE, SCAN_PREFIX, a.s, a.e)} ELSE {})
     \cup (IF n >= 4 /\ a.p # None THEN {Holds(p, FALSE, PLAYER_PREFIX, a.p, a.e)} ELSE {})
     \cup (IF n >= 5 /\ loc[p].old # None
             THEN {Holds(p, FALSE, PLAYER_PREFIX, loc[p].old, a.e)} ELSE {})

\* C17: MarkScan lock acquisition order. At each step of MarkScan the locks
\* held are exactly those of the order event item (shared), scans-master
\* (shared), scan item (exclusive), new-player item (exclusive), old-player
\* item (exclusive) up to that step: the old-player lock is requested with
\* the new-player lock held, the Scan record is written with the scan item
\* lock and (when assigning) the new-player lock held, and a Player record is
\* written with that player's item lock held exclusively.
C17_MarkScanLockOrder ==
  \A p \in Procs :
    (arg[p].op = "MarkScan" /\ pc[p] \notin {"idle", "done"}) =>
      /\ HeldBy(p) = MarkScanLocks(p)
      /\ pc[p] = "ms_olock" => loc[p].old # None
      /\ pc[p] = "ms_clear" =>
           Holds(p, FALSE, PLAYER_PREFIX, loc[p].old, arg[p].e) \in locks
      /\ pc[p] = "ms_set" =>
           Holds(p, FALSE, PLAYER_PREFIX, arg[p].p, arg[p].e) \in locks

\* C17 witness: a MarkScan that moves a scan from one player to another is
\* about to clear the previous owner, with all five locks held.
C17_Witness ==
  \E p \in Procs :
    /\ pc[p] = "ms_clear" /\ arg[p].p # None /\ loc[p].old # arg[p].p
    /\ Cardinality(HeldBy(p)) = 5

\* Process q's call is a MarkScan of another scan of the same event for
\* another player than process p's MarkScan, and has completed without error.
MarkedBeside(p, q) ==
  /\ q # p
  /\ arg[p].op = "MarkScan" /\ arg[q].op = "MarkScan"
  /\ pc[q] = "done" /\ ret[q].status = "ok"
  /\ arg[q].e = arg[p].e /\ arg[q].s # arg[p].s
  /\ arg[p].p # None /\ arg[q].p # None /\ arg[q].p # arg[p].p

\* C18: no lost update between concurrent MarkScan calls. Of MarkScan calls
\* on distinct scans for distinct players, none clears the scan_id of a
\* Player whose scan_id at that moment refers to a scan other than the one it
\* re-marks (the step by which, in the claim, the calls would leave I1
\* violated once all have completed).
C18_NoLostUpdate ==
  [][\A p \in Procs : \A q \in Procs \ {p} :
       ( /\ MarkedBeside(p, q)
         /\ pc[p] = "ms_clear" /\ pc'[p] # "ms_clear"
         /\ Exists(PLAYER_PREFIX, loc[p].old, arg[p].e) ) =>
         players[arg[p].e][loc[p].old].scan_id \in {arg[p].s, None}]_vars

\* Process p is in a Player/Scan operation, between the start of its
\* existence check and its return.
Inside(p) ==
  /\ arg[p].op \in PlayerScanOps
  /\ pc[p] \notin {"idle", "done", "ee_lock"}

\* C19: event existence is stable for the duration of an operation. A
\* Player/Scan operation holds the event's item lock in shared mode from its
\* existence check until it returns, and once the check has passed the event
\* exists at each of its steps; CreateEvent and DeleteEvent hold the lock
\* exclusively when they make or remove the directory; and while DeleteEvent
\* is about to remove an event no Player/Scan operation is inside it.
C19_EventStable ==
  \A p \in Procs :
    /\ Inside(p) =>
         /\ Holds(p, TRUE, EVENT_PREFIX, arg[p].e, None) \in locks
         /\ pc[p] # "ee_isdir" => arg[p].e \in events
    /\ pc[p] \in {"ce_mkdir", "de_rmtree"} =>
         /\ Holds(p, FALSE, EVENT_PREFIX, arg[p].e, None) \in locks
         /\ \A q \in Procs \ {p} : ~(Inside(q) /\ arg[q].e = arg[p].e)

\* C19 witness: a DeleteEvent waits for the event's item lock while a
\* Player/Scan operation on the event, past its existence check, has written
\* a file.
C19_Witness ==
  \E p \in Procs, q \in Procs :
    /\ pc[p] = "de_lock" /\ Inside(q) /\ arg[q].e = arg[p].e
    /\ pc[q] # "ee_isdir" /\ nw[q] > 0

\* C20: MarkScan succeeds on existing targets. In sequential execution a
\* MarkScan(e, s, p) called when event e, Scan s and (if given) Player p exist
\* completes without raising an error.
C20_MarkScanSucceeds ==
  \A e \in EventNames, s \in ScanIds, p \in PlayerIds \cup {None} :
    ( /\ SeqDone("MarkScan")
      /\ arg[SeqProc].e = e /\ arg[SeqProc].s = s /\ arg[SeqProc].p = p
      /\ e \in snapEvents /\ s \in DOMAIN snapScans[e]
      /\ p # None => p \in DOMAIN snapPlayers[e] ) =>
      ret[SeqProc].status = "ok"

====
